---- MODULE Spec2Model ----
(***************************************************************************)
(* Model of ezgatr's PGA encode/decode utilities (utils/encode.py) and of  *)
(* the geometric bilinear / MLP layers (nets/mv_only_gatr.py).             *)
(*                                                                         *)
(* Tensor elements are exact rationals <<n, d>> (d > 0, lowest terms);     *)
(* <<s, 0>> stands for the non-finite result of a division by zero.        *)
(* A tensor is a triple <<kind, shape, data>> with row-major data; an      *)
(* operation that raises yields a triple whose kind is the exception name, *)
(* and Python's None is the triple of kind "None".                         *)
(***************************************************************************)
EXTENDS Integers, Sequences, FiniteSets, TLC

\* ---------------------------------------------------------------- bounds
MaxNum == 2
MaxBatch == 2
MaxCh == 4

\* ------------------------------------------------------- rational numbers
AbsInt(n) == IF n < 0 THEN -n ELSE n

RECURSIVE Gcd(_, _)
Gcd(a, b) == IF b = 0 THEN a ELSE Gcd(b, a % b)

Rat(n, d) ==
  IF d = 0 THEN <<(IF n > 0 THEN 1 ELSE IF n < 0 THEN -1 ELSE 0), 0>>
  ELSE LET g == Gcd(AbsInt(n), AbsInt(d))
           s == IF d < 0 THEN -1 ELSE 1
       IN <<(s * n) \div g, (s * d) \div g>>

RZero == <<0, 1>>
ROne == <<1, 1>>
RMul(a, b) == Rat(a[1] * b[1], a[2] * b[2])
RAdd(a, b) == Rat(a[1] * b[2] + b[1] * a[2], a[2] * b[2])
RNeg(a) == <<-a[1], a[2]>>
RDiv(a, b) == Rat(a[1] * b[2], a[2] * b[1])
RAbs(a) == <<AbsInt(a[1]), a[2]>>
RGt(a, b) == a[1] * b[2] > b[1] * a[2]
RFinite(a) == a[2] # 0

\* ---------------------------------------------------------------- tensors
\* The data of a tensor is held as an evaluated sequence: concatenation turns
\* a function over 1..n into the tuple of its values.
Tensor(shape, data) == <<"tensor", shape, data \o <<>>>>
Raise(exc) == <<exc, <<>>, <<>>>>
None == <<"None", <<>>, <<>>>>
Kind(t) == t[1]
Shape(t) == t[2]
Data(t) == t[3]
IsTensor(t) == Kind(t) = "tensor"
IsError(t) == Kind(t) \in {"IndexError", "RuntimeError", "ValueError"}

RECURSIVE Numel(_)
Numel(shape) == IF shape = <<>> THEN 1 ELSE Head(shape) * Numel(Tail(shape))

Dim(t) == Len(Shape(t))
Prefix(shape) == SubSeq(shape, 1, Len(shape) - 1)
LastSize(t) == Shape(t)[Len(Shape(t))]

Zeros(shape) == Tensor(shape, [i \in 1..Numel(shape) |-> RZero])
\* c * t, for a Python float c
Scale(c, t) ==
  IF ~IsTensor(t) THEN t
  ELSE Tensor(Shape(t), [i \in 1..Len(Data(t)) |-> RMul(c, Data(t)[i])])
\* -t
Negate(t) ==
  IF ~IsTensor(t) THEN t
  ELSE Tensor(Shape(t), [i \in 1..Len(Data(t)) |-> RNeg(Data(t)[i])])

\* multi-index (0-based) of a 1-based flat position, and back
RECURSIVE Unravel(_, _)
Unravel(pos, shape) ==
  IF shape = <<>> THEN <<>>
  ELSE LET inner == Numel(Tail(shape))
       IN <<pos \div inner>> \o Unravel(pos % inner, Tail(shape))

RECURSIVE Ravel(_, _)
Ravel(idx, shape) ==
  IF shape = <<>> THEN 0
  ELSE Head(idx) * Numel(Tail(shape)) + Ravel(Tail(idx), Tail(shape))

\* torch broadcasting of a source shape to a target shape (expand)
Expandable(src, tgt) ==
  /\ Len(src) <= Len(tgt)
  /\ \A i \in 1..Len(src) :
       LET s == src[i]
           t == tgt[Len(tgt) - Len(src) + i]
       IN s = t \/ s = 1

Expand(t, tgt) ==
  LET off == Len(tgt) - Dim(t)
      At(pos) ==
        LET idx == Unravel(pos - 1, tgt)
            sidx == [i \in 1..Dim(t) |->
                       IF Shape(t)[i] = 1 THEN 0 ELSE idx[off + i]]
        IN Data(t)[Ravel(sidx, Shape(t)) + 1]
  IN Tensor(tgt, [pos \in 1..Numel(tgt) |-> At(pos)])

\* the shape two operands of an elementwise operation broadcast to, or <<-1>>
BroadcastShape(a, b) ==
  LET n == IF Len(a) > Len(b) THEN Len(a) ELSE Len(b)
      A(i) == IF i > n - Len(a) THEN a[i - (n - Len(a))] ELSE 1
      B(i) == IF i > n - Len(b) THEN b[i - (n - Len(b))] ELSE 1
  IN IF \A i \in 1..n : A(i) = B(i) \/ A(i) = 1 \/ B(i) = 1
     THEN [i \in 1..n |-> IF A(i) = 1 THEN B(i) ELSE A(i)]
     ELSE <<-1>>

\* t[..., lo:hi] (0-based, hi exclusive; a slice is clamped to the axis)
SliceLast(t, lo, hi) ==
  IF ~IsTensor(t) THEN t
  ELSE IF Dim(t) = 0 THEN Raise("IndexError")
  ELSE LET k == LastSize(t)
           h == IF hi > k THEN k ELSE hi
           l == IF lo > h THEN h ELSE lo
           w == h - l
           rows == Numel(Prefix(Shape(t)))
       IN Tensor(Prefix(Shape(t)) \o <<w>>,
                 [p \in 1..(rows * w) |->
                    Data(t)[((p - 1) \div w) * k + l + ((p - 1) % w) + 1]])

\* t[..., [i]] : keeps the last axis, with length 1
IndexLastKeep(t, i) ==
  IF ~IsTensor(t) THEN t
  ELSE IF Dim(t) = 0 \/ i >= LastSize(t) THEN Raise("IndexError")
  ELSE SliceLast(t, i, i + 1)

\* t[..., i] : drops the last axis
IndexLast(t, i) ==
  IF ~IsTensor(t) THEN t
  ELSE IF Dim(t) = 0 \/ i >= LastSize(t) THEN Raise("IndexError")
  ELSE Tensor(Prefix(Shape(t)), Data(SliceLast(t, i, i + 1)))

\* the leading size-1 axes of a value are dropped by tensor.__setitem__
RECURSIVE StripOnes(_)
StripOnes(shape) ==
  IF shape # <<>> /\ Head(shape) = 1 THEN StripOnes(Tail(shape)) ELSE shape

\* mvs[..., lo:hi] = value  (value a tensor, broadcast to the target)
SetSlice(mvs, lo, hi, value) ==
  IF ~IsTensor(mvs) THEN mvs
  ELSE IF ~IsTensor(value) THEN value
  ELSE LET k == LastSize(mvs)
           w == hi - lo
           tgt == Prefix(Shape(mvs)) \o <<w>>
           vshape == StripOnes(Shape(value))
           v == Tensor(vshape, Data(value))
       IN IF ~Expandable(vshape, tgt) THEN Raise("RuntimeError")
          ELSE LET e == Expand(v, tgt)
               IN Tensor(Shape(mvs),
                         [p \in 1..Len(Data(mvs)) |->
                            LET r == (p - 1) \div k
                                c == (p - 1) % k
                            IN IF c >= lo /\ c < hi
                               THEN Data(e)[r * w + (c - lo) + 1]
                               ELSE Data(mvs)[p]])

\* mvs[..., i] = value  (value a tensor, broadcast to the target)
SetIndex(mvs, i, value) ==
  IF ~IsTensor(mvs) THEN mvs
  ELSE IF ~IsTensor(value) THEN value
  ELSE LET k == LastSize(mvs)
           tgt == Prefix(Shape(mvs))
           vshape == StripOnes(Shape(value))
           v == Tensor(vshape, Data(value))
       IN IF ~Expandable(vshape, tgt) THEN Raise("RuntimeError")
          ELSE LET e == Expand(v, tgt)
               IN Tensor(Shape(mvs),
                         [p \in 1..Len(Data(mvs)) |->
                            IF (p - 1) % k = i
                            THEN Data(e)[(p - 1) \div k + 1]
                            ELSE Data(mvs)[p]])

\* mvs[..., i] = c  (c a Python float)
FillIndex(mvs, i, c) ==
  IF ~IsTensor(mvs) THEN mvs
  ELSE Tensor(Shape(mvs),
              [p \in 1..Len(Data(mvs)) |->
                 IF (p - 1) % LastSize(mvs) = i THEN c ELSE Data(mvs)[p]])

\* torch.cat([a, b], dim=-1)
CatLast(a, b) ==
  IF ~IsTensor(a) THEN a
  ELSE IF ~IsTensor(b) THEN b
  ELSE IF Dim(a) = 0 \/ Dim(b) = 0 THEN Raise("RuntimeError")
  ELSE IF Dim(a) # Dim(b) \/ Prefix(Shape(a)) # Prefix(Shape(b))
       THEN Raise("RuntimeError")
  ELSE LET ka == LastSize(a)
           kb == LastSize(b)
           k == ka + kb
           rows == Numel(Prefix(Shape(a)))
       IN Tensor(Prefix(Shape(a)) \o <<k>>,
                 [p \in 1..(rows * k) |->
                    LET r == (p - 1) \div k
                        c == (p - 1) % k
                    IN IF c < ka THEN Data(a)[r * ka + c + 1]
                       ELSE Data(b)[r * kb + (c - ka) + 1]])

\* elementwise a / b with broadcasting
Divide(a, b) ==
  IF ~IsTensor(a) THEN a
  ELSE IF ~IsTensor(b) THEN b
  ELSE LET sh == BroadcastShape(Shape(a), Shape(b))
       IN IF sh = <<-1>> THEN Raise("RuntimeError")
          ELSE LET ea == Expand(a, sh)
                   eb == Expand(b, sh)
               IN Tensor(sh, [p \in 1..Numel(sh) |-> RDiv(Data(ea)[p], Data(eb)[p])])

\* ------------------------------------------- the PGA geometric product
\* Basis blade k (0-based) is BladeSign[k] times the product of the generators
\* BladeGens[k] taken in increasing order; e0 squares to 0, e1..e3 to 1.
BladeGens ==
  <<{}, {0}, {1}, {2}, {3}, {0, 1}, {0, 2}, {0, 3}, {2, 3}, {1, 3}, {1, 2},
    {0, 2, 3}, {0, 1, 3}, {0, 1, 2}, {1, 2, 3}, {0, 1, 2, 3}>>

BladeSign == <<1, 1, 1, 1, 1, 1, 1, 1, 1, -1, 1, 1, -1, 1, 1, 1>>

BladeIndex(gens) == CHOOSE k \in 1..16 : BladeGens[k] = gens

\* basis_i * basis_j = sign * basis_k, where BladeMul(i, j) = <<k, sign>>
BladeMul(i, j) ==
  LET A == BladeGens[i]
      B == BladeGens[j]
      swaps == Cardinality({pr \in A \X B : pr[1] > pr[2]})
      k == BladeIndex((A \ B) \cup (B \ A))
  IN IF 0 \in A \cap B THEN <<k, 0>>
     ELSE <<k, BladeSign[i] * BladeSign[j] * BladeSign[k]
               * (IF swaps % 2 = 0 THEN 1 ELSE -1)>>

MulTable == [i \in 1..16 |-> [j \in 1..16 |-> BladeMul(i, j)]]

RECURSIVE RSum(_, _)
RSum(f, S) ==
  IF S = {} THEN RZero
  ELSE LET x == CHOOSE y \in S : TRUE
       IN RAdd(f[x], RSum(f, S \ {x}))

\* product of two 16-component multivectors (sequences of rationals)
MvProduct(a, b) ==
  LET nzA == {i \in 1..16 : a[i] # RZero}
      nzB == {j \in 1..16 : b[j] # RZero}
      pairs == {pr \in nzA \X nzB : MulTable[pr[1]][pr[2]][2] # 0}
      term == [pr \in pairs |->
                 RMul(<<MulTable[pr[1]][pr[2]][2], 1>>,
                      RMul(a[pr[1]], b[pr[2]]))]
  IN [k \in 1..16 |->
        RSum(term, {pr \in pairs : MulTable[pr[1]][pr[2]][1] = k})] \o <<>>

geometric_product(a, b) ==
  IF ~IsTensor(a) THEN a
  ELSE IF ~IsTensor(b) THEN b
  ELSE IF Dim(a) = 0 \/ Dim(b) = 0 THEN Raise("RuntimeError")
  ELSE IF LastSize(a) # 16 \/ LastSize(b) # 16 THEN Raise("RuntimeError")
  ELSE LET sh == BroadcastShape(Shape(a), Shape(b))
       IN IF sh = <<-1>> THEN Raise("RuntimeError")
          ELSE LET ea == Expand(a, sh)
                   eb == Expand(b, sh)
                   rows == Numel(Prefix(sh))
                   prod == [r \in 1..rows |->
                              MvProduct(SubSeq(Data(ea), (r - 1) * 16 + 1, r * 16),
                                        SubSeq(Data(eb), (r - 1) * 16 + 1, r * 16))]
               IN Tensor(sh, [p \in 1..(rows * 16) |->
                                prod[((p - 1) \div 16) + 1][((p - 1) % 16) + 1]])

\* ------------------------------------------------------ utils/encode.py
Point_encode(points) ==
  LET z == Zeros(Prefix(Shape(points)) \o <<16>>)
      m14 == FillIndex(z, 14, ROne)
      m13 == SetIndex(m14, 13, Negate(IndexLast(points, 0)))
      m12 == SetIndex(m13, 12, IndexLast(points, 1))
      m11 == SetIndex(m12, 11, Negate(IndexLast(points, 2)))
  IN m11

Point_decode(mvs) == None

Translation_encode(delta) ==
  LET z == Zeros(Prefix(Shape(delta)) \o <<16>>)
      m0 == FillIndex(z, 0, ROne)
      all == IF Dim(delta) = 0 THEN Raise("IndexError")
             ELSE SliceLast(delta, 0, LastSize(delta))
  IN SetSlice(m0, 5, 8, Scale(<<-1, 2>>, all))

\* faulty variant: a small component is replaced by the threshold with its own sign
ClampEmbeddingDim_signed(embedding_dim, threshold) ==
  IF ~IsTensor(embedding_dim) THEN embedding_dim
  ELSE Tensor(Shape(embedding_dim),
              [i \in 1..Len(Data(embedding_dim)) |->
                 LET x == Data(embedding_dim)[i]
                 IN IF RGt(RAbs(x), threshold) THEN x
                    ELSE IF x[1] < 0 THEN RNeg(threshold) ELSE threshold])

\* torch.where(torch.abs(embedding_dim) > threshold, embedding_dim, threshold)
ClampEmbeddingDim(embedding_dim, threshold) ==
  IF ~IsTensor(embedding_dim) THEN embedding_dim
  ELSE Tensor(Shape(embedding_dim),
              [i \in 1..Len(Data(embedding_dim)) |->
                 LET x == Data(embedding_dim)[i]
                 IN IF RGt(RAbs(x), threshold) THEN x ELSE threshold])

\* faulty variant: the factor -2 of the decoding loses its sign
Translation_decode_sign(mvs, divide_by_embedding_dim, threshold) ==
  LET delta == Scale(<<2, 1>>, SliceLast(mvs, 5, 8))
  IN IF divide_by_embedding_dim
     THEN Divide(delta, ClampEmbeddingDim(IndexLastKeep(mvs, 0), threshold))
     ELSE delta

Translation_decode(mvs, divide_by_embedding_dim, threshold) ==
  LET delta == Scale(<<-2, 1>>, SliceLast(mvs, 5, 8))
  IN IF divide_by_embedding_dim
     THEN Divide(delta, ClampEmbeddingDim(IndexLastKeep(mvs, 0), threshold))
     ELSE delta

PlaneDistanceBranch(mvs, distance) == SetIndex(mvs, 1, distance)

PlanePointBranch(mvs, distance) ==
  LET translation == Translation_encode(distance)
      inverse_translation == Translation_encode(Negate(distance))
  IN IF ~IsTensor(mvs) THEN mvs
     ELSE geometric_product(geometric_product(translation, mvs),
                            inverse_translation)

\* "distance.dim() == 1" decides that the second argument is a distance
TakesDistanceBranch(distance) == Dim(distance) = 1

Plane_encode(normals, distance) ==
  LET z == Zeros(Prefix(Shape(normals)) \o <<16>>)
      all == IF Dim(normals) = 0 THEN Raise("IndexError")
             ELSE SliceLast(normals, 0, LastSize(normals))
      mvs == SetSlice(z, 2, 5, all)
  IN IF ~IsTensor(mvs) THEN mvs
     ELSE IF TakesDistanceBranch(distance) THEN PlaneDistanceBranch(mvs, distance)
     ELSE PlanePointBranch(mvs, distance)

Plane_decode(mvs) == None

Scalar_encode(scalars) ==
  CatLast(scalars, Zeros(Prefix(Shape(scalars)) \o <<15>>))

Scalar_decode(mvs) == IndexLastKeep(mvs, 0)

\* faulty variant: the padding is appended instead of prepended
Pseudoscalar_encode_front(pseudoscalars) ==
  CatLast(pseudoscalars, Zeros(Prefix(Shape(pseudoscalars)) \o <<15>>))

Pseudoscalar_encode(pseudoscalars) ==
  CatLast(Zeros(Prefix(Shape(pseudoscalars)) \o <<15>>), pseudoscalars)

Pseudoscalar_decode(mvs) == IndexLastKeep(mvs, 15)

Reflection_encode(normals, positions) == Plane_encode(normals, positions)

Reflection_decode(mvs) == Plane_decode(mvs)

Rotation_encode(quaternions) == None

Rotation_decode(mvs) == None

\* ------------------------------------------------------------ the inputs
\* element values: the halves between -MaxNum/2 and MaxNum/2
Q == {Rat(n, 2) : n \in -MaxNum..MaxNum}
QSmall == {Rat(-1, 2), RZero, ROne}
QTwo == {Rat(-1, 2), ROne}
Thresholds == {Rat(1, 4), Rat(1, 2), ROne}

\* row i of a batch built from the base row v: v rotated by i - 1 places,
\* negated on the even rows
BatchRow(v, i) ==
  [j \in 1..Len(v) |->
     LET x == v[((j + i - 2) % Len(v)) + 1]
     IN IF i % 2 = 0 THEN RNeg(x) ELSE x]

RECURSIVE BatchData(_, _)
BatchData(v, b) ==
  IF b = 0 THEN <<>> ELSE BatchData(v, b - 1) \o BatchRow(v, b)

Scalar0(S) == {Tensor(<<>>, <<q>>) : q \in S}
Vec(k, S) == {Tensor(<<k>>, v) : v \in [1..k -> S]}
Bat(k, S) ==
  {Tensor(<<b, k>>, BatchData(v, b)) : v \in [1..k -> S], b \in 1..MaxBatch}

\* a multivector with scalar part s, e01..e03 part b and f everywhere else
MvData(s, b, f) ==
  [k \in 1..16 |-> IF k = 1 THEN s ELSE IF k \in 6..8 THEN b[k - 5] ELSE f]

MvPool ==
  {Tensor(<<16>>, MvData(s, b, f)) :
     s \in Q, b \in [1..3 -> QTwo], f \in {RZero, ROne}}
  \cup {Tensor(<<2, 16>>, MvData(s, b, RZero) \o MvData(RNeg(s), BatchRow(b, 2), ROne)) :
          s \in Q, b \in [1..3 -> QTwo]}
  \cup {Tensor(<<5>>, [k \in 1..5 |-> q]) : q \in QTwo}
  \cup Scalar0(QTwo)

PointInputs ==
  Scalar0(QTwo) \cup Vec(2, QTwo) \cup Vec(3, Q) \cup Vec(4, QTwo)
  \cup Bat(3, QSmall)

DeltaInputs ==
  Scalar0(QTwo) \cup Vec(1, Q) \cup Vec(2, QTwo) \cup Vec(3, Q)
  \cup Vec(4, QTwo) \cup Bat(1, Q) \cup Bat(3, QSmall)

ScalarInputs ==
  Scalar0(Q) \cup Vec(1, Q) \cup Vec(2, QSmall) \cup Bat(1, Q) \cup Bat(2, QTwo)

\* (normals, distance) pairs: unbatched normals with a 0-dim distance, a 1-dim
\* distance or a point; batched normals with per-row distances, column
\* distances, one point, or per-row points
PlaneInputs ==
  (Vec(3, QSmall)
     \X (Scalar0(QTwo) \cup Vec(1, QTwo) \cup Vec(3, QTwo) \cup Bat(3, {ROne})))
  \cup {pr \in Bat(3, QTwo)
              \X (UNION {Vec(b, QTwo) : b \in 1..MaxBatch} \cup Bat(1, QTwo)
                  \cup Vec(3, {ROne}) \cup Bat(3, {Rat(-1, 2)})) :
          Dim(pr[2]) = 1 \/ Shape(pr[2])[1] = Shape(pr[1])[1]}
  \cup (Vec(2, {ROne}) \X Vec(1, QTwo))
  \cup (Scalar0({ROne}) \X Vec(1, QTwo))

QuaternionInputs == Vec(4, QTwo)

\* ------------------------------------------------------------- the state
VARIABLES
  call,    \* the operation called last
  args,    \* its tensor arguments
  flag,    \* divide_by_embedding_dim of a Translation.decode call
  thr,     \* threshold of a Translation.decode call
  ret,     \* what the call returned or raised
  prev,    \* the call whose return value is args[1], or "none"
  src,     \* the arguments of that call
  config,  \* the ModelConfig object the layers refer to
  layer    \* the layer object constructed last

vars == <<call, args, flag, thr, ret, prev, src, config, layer>>

NoLayer == <<"none">>

CodecInit ==
  /\ call = "none"
  /\ args = <<>>
  /\ flag = FALSE
  /\ thr = ROne
  /\ ret = None
  /\ prev = "none"
  /\ src = <<>>
  /\ config = <<>>
  /\ layer = NoLayer

\* no call is in progress and no value is held
Idle == call = "none"

\* the previous call was `name` on fresh inputs and returned a tensor
Returned(name) == call = name /\ prev = "none" /\ IsTensor(ret)

PointEncode ==
  \E p \in PointInputs :
    /\ Idle
    /\ call' = "Point.encode"
    /\ args' = <<p>>
    /\ ret' = Point_encode(p)
    /\ prev' = "none"
    /\ src' = <<>>
    /\ UNCHANGED <<flag, thr, config, layer>>

PointDecode ==
  /\ Returned("Point.encode")
  /\ call' = "Point.decode"
  /\ args' = <<ret>>
  /\ ret' = Point_decode(ret)
  /\ prev' = call
  /\ src' = args
  /\ UNCHANGED <<flag, thr, config, layer>>

PlaneEncode ==
  \E pr \in PlaneInputs :
    /\ Idle
    /\ call' = "Plane.encode"
    /\ args' = <<pr[1], pr[2]>>
    /\ ret' = Plane_encode(pr[1], pr[2])
    /\ prev' = "none"
    /\ src' = <<>>
    /\ UNCHANGED <<flag, thr, config, layer>>

PlaneDecode ==
  /\ Returned("Plane.encode")
  /\ call' = "Plane.decode"
  /\ args' = <<ret>>
  /\ ret' = Plane_decode(ret)
  /\ prev' = call
  /\ src' = args
  /\ UNCHANGED <<flag, thr, config, layer>>

ReflectionEncode ==
  \E n \in Vec(3, QTwo), d \in Scalar0(QTwo) \cup Vec(1, QTwo) \cup Vec(3, QTwo) :
    /\ Idle
    /\ call' = "Reflection.encode"
    /\ args' = <<n, d>>
    /\ ret' = Reflection_encode(n, d)
    /\ prev' = "none"
    /\ src' = <<>>
    /\ UNCHANGED <<flag, thr, config, layer>>

ReflectionDecode ==
  /\ Returned("Reflection.encode")
  /\ call' = "Reflection.decode"
  /\ args' = <<ret>>
  /\ ret' = Reflection_decode(ret)
  /\ prev' = call
  /\ src' = args
  /\ UNCHANGED <<flag, thr, config, layer>>

ScalarEncode ==
  \E v \in ScalarInputs :
    /\ Idle
    /\ call' = "Scalar.encode"
    /\ args' = <<v>>
    /\ ret' = Scalar_encode(v)
    /\ prev' = "none"
    /\ src' = <<>>
    /\ UNCHANGED <<flag, thr, config, layer>>

ScalarDecode ==
  /\ call' = "Scalar.decode"
  /\ \/ /\ Returned("Scalar.encode")
        /\ args' = <<ret>>
        /\ ret' = Scalar_decode(ret)
        /\ prev' = call
        /\ src' = args
     \/ \E mv \in MvPool :
          /\ Idle
          /\ args' = <<mv>>
          /\ ret' = Scalar_decode(mv)
          /\ prev' = "none"
          /\ src' = <<>>
  /\ UNCHANGED <<flag, thr, config, layer>>

PseudoscalarEncode ==
  \E v \in ScalarInputs :
    /\ Idle
    /\ call' = "Pseudoscalar.encode"
    /\ args' = <<v>>
    /\ ret' = Pseudoscalar_encode(v)
    /\ prev' = "none"
    /\ src' = <<>>
    /\ UNCHANGED <<flag, thr, config, layer>>

PseudoscalarDecode ==
  /\ call' = "Pseudoscalar.decode"
  /\ \/ /\ Returned("Pseudoscalar.encode")
        /\ args' = <<ret>>
        /\ ret' = Pseudoscalar_decode(ret)
        /\ prev' = call
        /\ src' = args
     \/ \E mv \in MvPool :
          /\ Idle
          /\ args' = <<mv>>
          /\ ret' = Pseudoscalar_decode(mv)
          /\ prev' = "none"
          /\ src' = <<>>
  /\ UNCHANGED <<flag, thr, config, layer>>

RotationEncode ==
  \E q \in QuaternionInputs :
    /\ Idle
    /\ call' = "Rotation.encode"
    /\ args' = <<q>>
    /\ ret' = Rotation_encode(q)
    /\ prev' = "none"
    /\ src' = <<>>
    /\ UNCHANGED <<flag, thr, config, layer>>

RotationDecode ==
  \E mv \in MvPool :
    /\ Idle
    /\ call' = "Rotation.decode"
    /\ args' = <<mv>>
    /\ ret' = Rotation_decode(mv)
    /\ prev' = "none"
    /\ src' = <<>>
    /\ UNCHANGED <<flag, thr, config, layer>>

TranslationEncode ==
  \E t \in DeltaInputs :
    /\ Idle
    /\ call' = "Translation.encode"
    /\ args' = <<t>>
    /\ ret' = Translation_encode(t)
    /\ prev' = "none"
    /\ src' = <<>>
    /\ UNCHANGED <<flag, thr, config, layer>>

TranslationDecode ==
  \E f \in BOOLEAN, th \in Thresholds :
    /\ call' = "Translation.decode"
    /\ flag' = f
    /\ thr' = th
    /\ \/ /\ Returned("Translation.encode")
          /\ args' = <<ret>>
          /\ ret' = Translation_decode(ret, f, th)
          /\ prev' = call
          /\ src' = args
       \/ \E mv \in MvPool :
            /\ Idle
            /\ args' = <<mv>>
            /\ ret' = Translation_decode(mv, f, th)
            /\ prev' = "none"
            /\ src' = <<>>
    /\ UNCHANGED <<config, layer>>

\* the caller is done with the value the last call returned or raised
Discard ==
  /\ ~Idle
  /\ call' = "none"
  /\ args' = <<>>
  /\ flag' = FALSE
  /\ thr' = ROne
  /\ ret' = None
  /\ prev' = "none"
  /\ src' = <<>>
  /\ UNCHANGED <<config, layer>>

CodecNext ==
  \/ PointEncode
  \/ PointDecode
  \/ PlaneEncode
  \/ PlaneDecode
  \/ ReflectionEncode
  \/ ReflectionDecode
  \/ ScalarEncode
  \/ ScalarDecode
  \/ PseudoscalarEncode
  \/ PseudoscalarDecode
  \/ RotationEncode
  \/ RotationDecode
  \/ TranslationEncode
  \/ TranslationDecode
  \/ Discard

CodecSpec == CodecInit /\ [][CodecNext]_vars

\* ------------------------------------------------- nets/mv_only_gatr.py
\* A hidden multivector tensor is <<"tensor", shape, term>>: its shape is
\* (batch, channels, 16) and its content the term of the operations that
\* produced it.  <<"zeros">> is the zero tensor.
Hidden(shape, term) == <<"tensor", shape, term>>
Channels(x) == Shape(x)[Len(Shape(x)) - 1]
WithChannels(shape, c) == [shape EXCEPT ![Len(shape) - 1] = c]
ZeroTerm == <<"zeros">>
NoneTerm == <<"None">>
TermOf(x) == IF IsTensor(x) THEN Data(x) ELSE NoneTerm

\* ModelConfig: <<size_channels_in, size_channels_hidden, size_channels_intermediate>>
ModelConfig(cin, hidden, inter) == <<cin, hidden, inter>>
size_channels_in(c) == c[1]
size_channels_hidden(c) == c[2]
size_channels_intermediate(c) == c[3]

\* EquiLinear(in_channels, out_channels); weight is "zero" when every learned
\* parameter of the map is zero, "generic" otherwise
EquiLinear(label, cin, cout, weight) == <<"EquiLinear", label, cin, cout, weight>>
InChannels(lin) == lin[3]
OutChannels(lin) == lin[4]

EquiLinear_forward(lin, x) ==
  IF ~IsTensor(x) THEN x
  ELSE IF Channels(x) # InChannels(lin) THEN Raise("RuntimeError")
  ELSE Hidden(WithChannels(Shape(x), OutChannels(lin)),
              IF lin[5] = "zero" THEN ZeroTerm ELSE <<lin[2], Data(x)>>)

EquiRMSNorm_forward(x) ==
  IF ~IsTensor(x) THEN x ELSE Hidden(Shape(x), <<"EquiRMSNorm", Data(x)>>)

scaler_gated_gelu(x) ==
  IF ~IsTensor(x) THEN x ELSE Hidden(Shape(x), <<"scaler_gated_gelu", Data(x)>>)

hidden_geometric_product(a, b) ==
  IF ~IsTensor(a) THEN a
  ELSE IF ~IsTensor(b) THEN b
  ELSE IF BroadcastShape(Shape(a), Shape(b)) = <<-1>> THEN Raise("RuntimeError")
  ELSE Hidden(BroadcastShape(Shape(a), Shape(b)),
              <<"geometric_product", Data(a), Data(b)>>)

equi_join(a, b, reference) ==
  IF ~IsTensor(a) THEN a
  ELSE IF ~IsTensor(b) THEN b
  ELSE IF BroadcastShape(Shape(a), Shape(b)) = <<-1>> THEN Raise("RuntimeError")
  ELSE Hidden(BroadcastShape(Shape(a), Shape(b)),
              <<"equi_join", Data(a), Data(b), TermOf(reference)>>)

\* torch.split(x, split_size, dim=-2): consecutive chunks of split_size
\* channels, the last one shorter when the channels do not divide evenly
Split(x, split_size) ==
  IF ~IsTensor(x) THEN <<x>>
  ELSE IF split_size <= 0 THEN <<Raise("RuntimeError")>>
  ELSE LET n == Channels(x)
           chunks == (n + split_size - 1) \div split_size
       IN [i \in 1..chunks |->
             LET lo == (i - 1) * split_size
                 hi == IF i * split_size > n THEN n ELSE i * split_size
             IN Hidden(WithChannels(Shape(x), hi - lo),
                       <<"split", Data(x), lo, hi>>)]

\* torch.cat([a, b], dim=-2)
CatChannels(a, b) ==
  IF ~IsTensor(a) THEN a
  ELSE IF ~IsTensor(b) THEN b
  ELSE IF WithChannels(Shape(a), 0) # WithChannels(Shape(b), 0)
       THEN Raise("RuntimeError")
  ELSE Hidden(WithChannels(Shape(a), Channels(a) + Channels(b)),
              <<"cat", Data(a), Data(b)>>)

\* x + residual
Add(a, b) ==
  IF ~IsTensor(a) THEN a
  ELSE IF ~IsTensor(b) THEN b
  ELSE IF BroadcastShape(Shape(a), Shape(b)) = <<-1>> THEN Raise("RuntimeError")
  ELSE Hidden(BroadcastShape(Shape(a), Shape(b)),
              IF Data(a) = ZeroTerm THEN Data(b)
              ELSE IF Data(b) = ZeroTerm THEN Data(a)
              ELSE <<"add", Data(a), Data(b)>>)

\* Embedding.__init__ : the layer object, <<"Embedding", embedding>>
Embedding_init(cfg, weight) ==
  <<"Embedding",
    EquiLinear("embedding", size_channels_in(cfg), size_channels_hidden(cfg), weight)>>

Embedding_forward(self, x) == EquiLinear_forward(self[2], x)

\* faulty variant: the parity of size_channels_intermediate is not checked
Bilinear_init_unchecked(cfg, weight) ==
  <<"Bilinear",
    EquiLinear("proj_bil", size_channels_hidden(cfg),
               size_channels_intermediate(cfg) * 2, "generic"),
    EquiLinear("proj_out", size_channels_intermediate(cfg),
               size_channels_hidden(cfg), weight)>>

\* Bilinear.__init__ : the layer object <<"Bilinear", proj_bil, proj_out>>, or
\* the ValueError it raises
Bilinear_init(cfg, weight) ==
  IF size_channels_intermediate(cfg) % 2 # 0 THEN Raise("ValueError")
  ELSE <<"Bilinear",
         EquiLinear("proj_bil", size_channels_hidden(cfg),
                    size_channels_intermediate(cfg) * 2, "generic"),
         EquiLinear("proj_out", size_channels_intermediate(cfg),
                    size_channels_hidden(cfg), weight)>>

\* size_inter = self.config.size_channels_intermediate // 2, read from the
\* configuration object at the time of the call
SizeInter(cfg) == size_channels_intermediate(cfg) \div 2

\* faulty variant: the join result is concatenated before the geometric product
Bilinear_forward_swapped(self, cfg, x, reference) ==
  LET parts == Split(EquiLinear_forward(self[2], x), SizeInter(cfg))
  IN IF ~IsTensor(parts[1]) THEN parts[1]
     ELSE IF Len(parts) # 4 THEN Raise("ValueError")
     ELSE EquiLinear_forward(
            self[3],
            CatChannels(equi_join(parts[3], parts[4], reference),
                        hidden_geometric_product(parts[1], parts[2])))

\* Bilinear.forward; cfg is self.config as it is when forward is called
Bilinear_forward(self, cfg, x, reference) ==
  LET parts == Split(EquiLinear_forward(self[2], x), SizeInter(cfg))
  IN IF ~IsTensor(parts[1]) THEN parts[1]
     ELSE IF Len(parts) # 4 THEN Raise("ValueError")
     ELSE LET lg == parts[1]
              rg == parts[2]
              lj == parts[3]
              rj == parts[4]
          IN EquiLinear_forward(
               self[3],
               CatChannels(hidden_geometric_product(lg, rg),
                           equi_join(lj, rj, reference)))

\* MLP.__init__ : <<"MLP", layer_norm, equi_bil, proj_out>>, or the error
\* raised by the construction of its Bilinear
MLP_init(cfg, weight) ==
  LET equi_bil == Bilinear_init(cfg, "generic")
  IN IF IsError(equi_bil) THEN equi_bil
     ELSE <<"MLP", <<"EquiRMSNorm", size_channels_hidden(cfg)>>, equi_bil,
            EquiLinear("mlp.proj_out", size_channels_hidden(cfg),
                       size_channels_hidden(cfg), weight)>>

\* faulty variant: the residual is taken after the normalization
MLP_forward_postnorm(self, cfg, x, reference) ==
  LET x1 == EquiRMSNorm_forward(x)
      x2 == Bilinear_forward(self[3], cfg, x1, reference)
      x3 == EquiLinear_forward(self[4], scaler_gated_gelu(x2))
  IN Add(x3, x1)

MLP_forward(self, cfg, x, reference) ==
  LET residual == x
      x1 == EquiRMSNorm_forward(x)
      x2 == Bilinear_forward(self[3], cfg, x1, reference)
      x3 == EquiLinear_forward(self[4], scaler_gated_gelu(x2))
  IN Add(x3, residual)

\* --------------------------------------------------- the network's inputs
Weights == {"zero", "generic"}
Configs ==
  {ModelConfig(cin, h, i) : cin \in 1..2, h \in 1..MaxCh, i \in 1..MaxCh}
HiddenInputs == {Hidden(<<MaxBatch, c, 16>>, <<"x">>) : c \in 1..MaxCh}
ReferenceInputs == {None, Hidden(<<MaxBatch, 1, 16>>, <<"reference">>)}

NetInit ==
  /\ config \in Configs
  /\ layer = NoLayer
  /\ call = "ModelConfig.__init__"
  /\ args = <<>>
  /\ flag = FALSE
  /\ thr = ROne
  /\ ret = None
  /\ prev = "none"
  /\ src = <<>>

\* config.<field> = value : ModelConfig is a plain dataclass, the assignment
\* succeeds and every layer holding the object sees the new value
ConfigSetattr ==
  \E field \in 1..3, value \in 1..MaxCh :
    /\ field = 1 => value <= 2
    /\ config[field] # value
    /\ config' = [config EXCEPT ![field] = value]
    /\ call' = "ModelConfig.__setattr__"
    /\ args' = <<>>
    /\ ret' = None
    /\ UNCHANGED <<layer, flag, thr, prev, src>>

\* a constructor that raises leaves no new object behind
Constructed(name, obj) ==
  /\ call' = name
  /\ args' = <<>>
  /\ layer' = IF IsError(obj) THEN layer ELSE obj
  /\ ret' = IF IsError(obj) THEN obj ELSE None
  /\ UNCHANGED <<config, flag, thr, prev, src>>

ConstructEmbedding ==
  /\ Constructed("Embedding.__init__", Embedding_init(config, "generic"))

ConstructBilinear ==
  \E w \in Weights :
    /\ Constructed("Bilinear.__init__", Bilinear_init(config, w))

ConstructMLP ==
  \E w \in Weights :
    /\ Constructed("MLP.__init__", MLP_init(config, w))

EmbeddingForward ==
  \E x \in HiddenInputs :
    /\ layer[1] = "Embedding"
    /\ call' = "Embedding.forward"
    /\ args' = <<x>>
    /\ ret' = Embedding_forward(layer, x)
    /\ UNCHANGED <<config, layer, flag, thr, prev, src>>

BilinearForward ==
  \E x \in HiddenInputs, reference \in ReferenceInputs :
    /\ layer[1] = "Bilinear"
    /\ call' = "Bilinear.forward"
    /\ args' = <<x, reference>>
    /\ ret' = Bilinear_forward(layer, config, x, reference)
    /\ UNCHANGED <<config, layer, flag, thr, prev, src>>

MLPForward ==
  \E x \in HiddenInputs, reference \in ReferenceInputs :
    /\ layer[1] = "MLP"
    /\ call' = "MLP.forward"
    /\ args' = <<x, reference>>
    /\ ret' = MLP_forward(layer, config, x, reference)
    /\ UNCHANGED <<config, layer, flag, thr, prev, src>>

NetNext ==
  \/ ConfigSetattr
  \/ ConstructEmbedding
  \/ ConstructBilinear
  \/ ConstructMLP
  \/ EmbeddingForward
  \/ BilinearForward
  \/ MLPForward

NetSpec == NetInit /\ [][NetNext]_vars

\* ------------------------------------------------- properties: the codec
Rows(t) == Numel(Prefix(Shape(t)))
\* component k (0-based) of row r (1-based) of t
Elem(t, r, k) == Data(t)[(r - 1) * LastSize(t) + k + 1]
IsVectorOf(t, k) == IsTensor(t) /\ Dim(t) >= 1 /\ LastSize(t) = k
IsMultivector(t) == IsVectorOf(t, 16)
Half == Rat(1, 2)

\* C1: for every 3-vector t, Translation.encode(t) has component 0 equal to 1,
\* components 5..7 equal to -0.5 * t and every other component 0, and
\* Translation.decode of it without the division returns t exactly.
C1_TranslationRoundTrip ==
  /\ (call = "Translation.encode" /\ IsVectorOf(args[1], 3)) =>
       /\ IsTensor(ret)
       /\ Shape(ret) = Prefix(Shape(args[1])) \o <<16>>
       /\ \A r \in 1..Rows(ret), k \in 0..15 :
            Elem(ret, r, k) =
              IF k = 0 THEN ROne
              ELSE IF k \in 5..7 THEN RNeg(RMul(Half, Elem(args[1], r, k - 5)))
              ELSE RZero
  /\ (call = "Translation.decode" /\ prev = "Translation.encode"
        /\ IsVectorOf(src[1], 3) /\ ~flag) =>
       ret = src[1]

C1_Witness ==
  /\ call = "Translation.decode"
  /\ prev = "Translation.encode"
  /\ ~flag
  /\ Shape(src[1]) = <<2, 3>>
  /\ Elem(src[1], 1, 0) = RNeg(Half)
  /\ Elem(src[1], 2, 2) = Half
  /\ Elem(args[1], 1, 5) = Rat(1, 4)
  /\ ret = src[1]

\* C2 as stated: for EVERY real tensor v, Scalar and Pseudoscalar encode v
\* into a multivector and decode(encode(v)) = v.
C2_Original ==
  /\ call \in {"Scalar.encode", "Pseudoscalar.encode"} => IsMultivector(ret)
  /\ (call = "Scalar.decode" /\ prev = "Scalar.encode") => ret = src[1]
  /\ (call = "Pseudoscalar.decode" /\ prev = "Pseudoscalar.encode") => ret = src[1]

\* C2 (amended): for every real tensor v whose last axis has length 1,
\* Scalar.encode places v at index 0 and Pseudoscalar.encode at index 15 of a
\* length-16 last axis, zero elsewhere, and decode(encode(v)) = v exactly.
C2_ScalarRoundTrip ==
  /\ (call \in {"Scalar.encode", "Pseudoscalar.encode"} /\ IsVectorOf(args[1], 1)) =>
       /\ IsTensor(ret)
       /\ Shape(ret) = Prefix(Shape(args[1])) \o <<16>>
       /\ \A r \in 1..Rows(ret), k \in 0..15 :
            Elem(ret, r, k) =
              IF k = (IF call = "Scalar.encode" THEN 0 ELSE 15)
              THEN Elem(args[1], r, 0) ELSE RZero
  /\ (/\ \/ (call = "Scalar.decode" /\ prev = "Scalar.encode")
          \/ (call = "Pseudoscalar.decode" /\ prev = "Pseudoscalar.encode")
       /\ IsVectorOf(src[1], 1)) =>
       ret = src[1]

C2_Witness ==
  /\ call = "Pseudoscalar.decode"
  /\ prev = "Pseudoscalar.encode"
  /\ Shape(src[1]) = <<2, 1>>
  /\ Elem(src[1], 1, 0) = Half
  /\ Elem(args[1], 1, 15) = Half
  /\ ret = src[1]

\* C3 as stated: Point.decode, Plane.decode, Reflection.decode, Rotation.encode
\* and Rotation.decode fail with a not-implemented error on every input and
\* never return normally.
C3_Claim ==
  call \in {"Point.decode", "Plane.decode", "Reflection.decode",
            "Rotation.encode", "Rotation.decode"} =>
    Kind(ret) = "NotImplementedError"

\* the divisor C5 names: the scalar part when its magnitude exceeds the
\* threshold, the threshold itself (positive) otherwise
C5_Divisor(x, threshold) ==
  IF (x[1] * threshold[2] > threshold[1] * x[2])
       \/ ((-x[1]) * threshold[2] > threshold[1] * x[2])
  THEN x ELSE threshold

\* C5: for every multivector mv and threshold > 0, Translation.decode with the
\* division returns (-2 * mv[5..7]) / d with d = mv[0] if |mv[0]| > threshold
\* and d = +threshold otherwise; d is never 0 and the division always happens.
C5_ClampedDivision ==
  (call = "Translation.decode" /\ flag /\ IsMultivector(args[1])) =>
    /\ IsTensor(ret)
    /\ Shape(ret) = Prefix(Shape(args[1])) \o <<3>>
    /\ \A r \in 1..Rows(ret), j \in 0..2 :
         LET d == C5_Divisor(Elem(args[1], r, 0), thr)
         IN /\ d # RZero
            /\ RFinite(Elem(ret, r, j))
            /\ RMul(Elem(ret, r, j), d) = RMul(<<-2, 1>>, Elem(args[1], r, 5 + j))

\* a negative scalar part no larger than the threshold is replaced by
\* +threshold, so the sign of the result is that of -2 * mv[5]
C5_Witness ==
  /\ call = "Translation.decode"
  /\ flag
  /\ prev = "none"
  /\ Shape(args[1]) = <<16>>
  /\ thr = Half
  /\ Elem(args[1], 1, 0) = RNeg(Half)
  /\ Elem(args[1], 1, 5) = ROne
  /\ IsTensor(ret)
  /\ Elem(ret, 1, 0) = <<-4, 1>>

\* the second argument of Plane.encode is a scalar distance: a 0-dim tensor,
\* or a 1-dim tensor holding one distance, or one distance per plane
IsScalarDistance(normals, distance) ==
  \/ Dim(distance) = 0
  \/ Dim(distance) = 1 /\ Shape(distance) \in {<<1>>, Prefix(Shape(normals))}

\* the second argument of Plane.encode is a point (or one point per plane)
IsPoint(normals, distance) ==
  IsVectorOf(distance, 3) /\ ~IsScalarDistance(normals, distance)

\* the distance of plane r
DistanceOf(distance, r) ==
  IF Len(Data(distance)) = 1 THEN Data(distance)[1] ELSE Data(distance)[r]

\* C6 as stated: Plane.encode(n, d) with d a 0-dim or 1-dim scalar distance
\* returns n at indices 2..4, d at index 1 and 0 elsewhere; with a point as the
\* second argument, batched or of shape (3,), it returns the translator
\* sandwich T * plane * T_inverse.
C6_Claim ==
  (call = "Plane.encode" /\ IsVectorOf(args[1], 3)) =>
    /\ IsScalarDistance(args[1], args[2]) =>
         /\ IsTensor(ret)
         /\ Shape(ret) = Prefix(Shape(args[1])) \o <<16>>
         /\ \A r \in 1..Rows(ret), k \in 0..15 :
              Elem(ret, r, k) =
                IF k = 1 THEN DistanceOf(args[2], r)
                ELSE IF k \in 2..4 THEN Elem(args[1], r, k - 2)
                ELSE RZero
    /\ IsPoint(args[1], args[2]) =>
         /\ IsTensor(ret)
         /\ ret = PlanePointBranch(
                    SetSlice(Zeros(Prefix(Shape(args[1])) \o <<16>>), 2, 5, args[1]),
                    args[2])

\* the components each primitive specifies
Specified(name) ==
  CASE name = "Scalar.encode" -> {0}
    [] name = "Pseudoscalar.encode" -> {15}
    [] name = "Translation.encode" -> {0, 5, 6, 7}
    [] name = "Point.encode" -> {11, 12, 13, 14}
    [] name \in {"Plane.encode", "Reflection.encode"} -> {1, 2, 3, 4}

\* the last-axis length each primitive takes
InputWidth(name) ==
  IF name \in {"Scalar.encode", "Pseudoscalar.encode"} THEN 1 ELSE 3

Encoders ==
  {"Scalar.encode", "Pseudoscalar.encode", "Translation.encode", "Point.encode",
   "Plane.encode", "Reflection.encode"}

\* C7 as stated: every encode that returns normally returns a length-16 last
\* axis whose components other than the specified ones are 0, and an input whose
\* last axis does not match the primitive raises a shape error.
C7_Claim ==
  call \in Encoders =>
    /\ IsTensor(ret) =>
         /\ IsMultivector(ret)
         /\ \A r \in 1..Rows(ret), k \in (0..15) \ Specified(call) :
              Elem(ret, r, k) = RZero
    /\ (Dim(args[1]) >= 1 /\ LastSize(args[1]) # InputWidth(call)) => IsError(ret)

\* --------------------------------------------- properties: the network
Odd(n) == n % 2 = 1

\* the projections of the Bilinear have the sizes the configuration gives
BuiltFrom(bil, cfg) ==
  /\ InChannels(bil[2]) = size_channels_hidden(cfg)
  /\ OutChannels(bil[2]) = 2 * size_channels_intermediate(cfg)
  /\ InChannels(bil[3]) = size_channels_intermediate(cfg)
  /\ OutChannels(bil[3]) = size_channels_hidden(cfg)

BuiltFromCurrent(bil) == BuiltFrom(bil, config)

\* C4: constructing Bilinear or MLP from a configuration with an odd
\* size_channels_intermediate raises a configuration error and produces no
\* layer object; with an even positive value the construction succeeds, and
\* Bilinear.forward of the new layer on an input with size_channels_hidden
\* channels returns size_channels_hidden channels.
C4_BilinearConstruction ==
  [][/\ (call' \in {"Bilinear.__init__", "MLP.__init__"}
           /\ Odd(size_channels_intermediate(config'))) =>
          (ret' = Raise("ValueError") /\ layer' = layer)
     /\ (call' = "Bilinear.__init__"
           /\ ~Odd(size_channels_intermediate(config'))) =>
          (ret' = None /\ layer'[1] = "Bilinear" /\ BuiltFrom(layer', config'))
     /\ (call' = "MLP.__init__"
           /\ ~Odd(size_channels_intermediate(config'))) =>
          (ret' = None /\ layer'[1] = "MLP" /\ BuiltFrom(layer'[3], config'))
     /\ (call = "Bilinear.__init__" /\ ret = None /\ call' = "Bilinear.forward"
           /\ Channels(args'[1]) = size_channels_hidden(config)) =>
          (/\ IsTensor(ret')
           /\ Shape(ret') = Shape(args'[1])
           /\ Channels(ret') = size_channels_hidden(config))]_vars

C4_Witness ==
  /\ call = "MLP.__init__"
  /\ size_channels_intermediate(config) = 3
  /\ Kind(ret) = "ValueError"
  /\ layer = NoLayer

\* C8 as stated: no field of the configuration changes after construction, and
\* the group size Bilinear.forward splits by is always a quarter of the
\* channels its construction-time projection produces.
C8_Claim ==
  [][/\ config' = config
     /\ layer'[1] = "Bilinear" =>
          4 * SizeInter(config') = OutChannels(layer'[2])]_vars

\* the term Bilinear.forward is claimed to compute from the input term e,
\* splitting by groups of k channels
BilinearTerm(e, k, reference) ==
  LET P == <<"proj_bil", e>>
      S(lo, hi) == <<"split", P, lo, hi>>
  IN <<"proj_out",
       <<"cat",
         <<"geometric_product", S(0, k), S(k, 2 * k)>>,
         <<"equi_join", S(2 * k, 3 * k), S(3 * k, 4 * k), TermOf(reference)>>>>>>

\* C9: MLP.forward(x, reference) returns
\* linear(gated_activation(Bilinear(normalize(x), reference))) + x with the
\* original x as the residual; the output has the shape of x, and it is x when
\* the sub-layer chain yields the zero tensor.
C9_MLPForward ==
  call = "MLP.forward" =>
    /\ (BuiltFromCurrent(layer[3])
          /\ Channels(args[1]) = size_channels_hidden(config)) => IsTensor(ret)
    /\ IsTensor(ret) =>
         /\ Shape(ret) = Shape(args[1])
         /\ Data(ret) =
              IF layer[4][5] = "zero" THEN Data(args[1])
              ELSE <<"add",
                     <<"mlp.proj_out",
                       <<"scaler_gated_gelu",
                         BilinearTerm(<<"EquiRMSNorm", Data(args[1])>>,
                                      SizeInter(config), args[2])>>>>,
                     Data(args[1])>>

C9_Witness ==
  /\ call = "MLP.forward"
  /\ IsTensor(ret)
  /\ IsTensor(args[2])
  /\ layer[4][5] = "generic"
  /\ Channels(ret) = 3
  /\ Data(ret)[1] = "add"
  /\ Data(ret)[3] = <<"x">>

\* C10: for every configuration with which a Bilinear is constructed,
\* Bilinear.forward splits the 2 * size_channels_intermediate projected channels
\* into four contiguous groups of size_channels_intermediate / 2 channels, in the
\* order left-gp, right-gp, left-join, right-join, and concatenates the
\* geometric product first, giving size_channels_intermediate channels to the
\* final projection.
C10_BilinearSplit ==
  (call = "Bilinear.forward" /\ BuiltFromCurrent(layer)
     /\ Channels(args[1]) = size_channels_hidden(config)) =>
    LET k == SizeInter(config)
    IN /\ 4 * k = OutChannels(layer[2])
       /\ 2 * k = InChannels(layer[3])
       /\ IsTensor(ret)
       /\ Shape(ret) = Shape(args[1])
       /\ Data(ret) = IF layer[3][5] = "zero" THEN ZeroTerm
                      ELSE BilinearTerm(Data(args[1]), k, args[2])

C10_Witness ==
  /\ call = "Bilinear.forward"
  /\ BuiltFromCurrent(layer)
  /\ size_channels_intermediate(config) = 4
  /\ IsTensor(ret)
  /\ IsTensor(args[2])
  /\ Data(ret)[1] = "proj_out"
  /\ Data(ret)[2][2][2] = <<"split", <<"proj_bil", <<"x">>>>, 0, 2>>
  /\ Data(ret)[2][3][3] = <<"split", <<"proj_bil", <<"x">>>>, 6, 8>>

====
